---- MODULE Spec2Model ----
(***************************************************************************)
(* Model of the SEC-filing extraction pipeline:                            *)
(*   src/sec_filing_fetcher.py   SECFilingFetcher (ticker table, EDGAR     *)
(*                               search, filing download, file cache)      *)
(*   src/end_to_end_example.py   main() and the exporters                  *)
(*   src/financial_extraction.py extract_from_text / analyze / save        *)
(*                                                                         *)
(* The program is single-threaded.  A call is cut into one action per      *)
(* stretch of code between two blocking HTTP requests; the response of     *)
(* the network (and the outcome of a file write) is the input of the next  *)
(* action.  Strings the code takes apart (tickers, dates, URL segments,    *)
(* file names) are sequences of characters.                                *)
(***************************************************************************)
EXTENDS Integers, Sequences, FiniteSets, TLC

VARIABLES
    outDir,       \* the --output-dir directory exists
    cacheDir,     \* the cache directory (output_dir/sec_cache) exists
    cache,        \* cache directory: file stem -> [ok, text]
    cachedFrom,   \* history: file stem -> filing URL whose fetch created the file
    fetched,      \* history: <<ticker, filing_type>> of the runs of main() whose fetch got text
    pc,           \* position of the running call
    caller,       \* the top-level call in progress / last finished
    args,         \* its arguments
    url,          \* filing_url handed to get_filing_text in the current call
    trace,        \* side effects of the current top-level call, in order
    ret,          \* outcome of the last finished top-level call
    filing_text,  \* main(): local filing_text
    result,       \* main(): AnnotatedDocument returned by extract_from_text
    artifacts     \* files written under the output directory by step 4

vars == <<outDir, cacheDir, cache, cachedFrom, fetched, pc, caller, args, url, trace,
          ret, filing_text, result, artifacts>>

-----------------------------------------------------------------------------
(* Strings *)

S_NVDA == <<"N", "V", "D", "A">>
S_nvda == <<"n", "v", "d", "a">>
S_MSFT == <<"M", "S", "F", "T">>
S_AAPL == <<"A", "A", "P", "L">>
S_GOOGL == <<"G", "O", "O", "G", "L">>
S_AMZN == <<"A", "M", "Z", "N">>
S_TSLA == <<"T", "S", "L", "A">>
S_META == <<"M", "E", "T", "A">>
S_IBM == <<"I", "B", "M">>
S_10K == <<"1", "0", "-", "K">>
S_10Q == <<"1", "0", "-", "Q">>
S_2024 == <<"2", "0", "2", "4">>
D_2024 == <<"2", "0", "2", "4", "-", "0", "2", "-", "2", "1">>
D_2023 == <<"2", "0", "2", "3", "-", "0", "2", "-", "2", "4">>

\* str.upper(), on the letters the model's tickers use
UpperChar(c) ==
    CASE c = "n" -> "N"
      [] c = "v" -> "V"
      [] c = "d" -> "D"
      [] c = "a" -> "A"
      [] OTHER -> c

Upper(s) == [i \in 1..Len(s) |-> UpperChar(s[i])]

\* Python's  s in t  on strings: s occurs in t as a contiguous substring
IsSubstring(s, t) ==
    \E i \in 0..(Len(t) - Len(s)) : SubSeq(t, i + 1, i + Len(s)) = s

-----------------------------------------------------------------------------
(* Texts.  A cleaned filing text is the first len characters of the cleaned *)
(* text of one downloaded document; the empty string has length 0.          *)

Docs == {"docLong", "docShort", "docBlank"}

EmptyText == [src |-> "", len |-> 0]

MkText(d, n) == IF n = 0 THEN EmptyText ELSE [src |-> d, len |-> n]

\* length of the text that soup.get_text + the two re.sub + strip leave
CleanLen(d) ==
    CASE d = "docLong" -> 60000
      [] d = "docShort" -> 1200
      [] OTHER -> 0

\* the [:50000] of _extract_sections
SectionLimit == 50000

Min(a, b) == IF a < b THEN a ELSE b

_extract_full_text(d) == MkText(d, CleanLen(d))

_extract_sections(d, sections) ==
    LET full_text == _extract_full_text(d)
    IN  MkText(d, Min(full_text.len, SectionLimit))

-----------------------------------------------------------------------------
(* URLs and the pages EDGAR serves *)

\* "https://www.sec.gov".split("/")
BASE_URL == << <<"https:">>, <<>>, <<"www.sec.gov">> >>

K_INDEX == <<"0001045810-24-000029-index.htm">>

\* href attributes of the filing links, as the path segments after the leading "/"
HrefA == << <<"d1">>, K_INDEX >>
HrefB == << <<"d2">>, K_INDEX >>
HrefC == << <<"d1">>, S_NVDA \o <<"_">> \o S_10K >>
Hrefs == {HrefA, HrefB, HrefC}

\* find("a") found no anchor
NoHref == <<>>

DocHref == << <<"d1">>, <<"nvda-10k.htm">> >>

\* BASE_URL + href
Url(href) == BASE_URL \o href

URLs == {Url(h) : h \in Hrefs}

NoUrl == <<>>

\* the most rows a served table has below its header row
MaxRows == 2

SeqsUpTo(S, n) == UNION {[1..k -> S] : k \in 0..n}

Dates == {D_2024, D_2023}

\* a row of table.tableFile2 with fewer than four cells
ShortSearchRow == [ncols |-> 3, filing_date |-> D_2024, link |-> NoHref]

\* a row whose second cell holds no anchor
NoLinkSearchRow == [ncols |-> 4, filing_date |-> D_2024, link |-> NoHref]

SearchRows ==
    {ShortSearchRow, NoLinkSearchRow} \cup [ncols : {4}, filing_date : Dates, link : Hrefs]

\* a response to a GET: an exception (connection error, timeout, HTTP error
\* status), a page without the table, or a page whose table has these rows
ErrorResponse == [kind |-> "error", rows |-> <<>>]
NoTablePage == [kind |-> "no_table", rows |-> <<>>]
TablePage(rows) == [kind |-> "table", rows |-> rows]

SearchResponses ==
    {ErrorResponse, NoTablePage} \cup {TablePage(r) : r \in SeqsUpTo(SearchRows, MaxRows)}

DocTypes == {"10-K", "EX-21"}

ShortDetailRow == [ncols |-> 3, doc_type |-> "10-K", link |-> NoHref]

DetailRows ==
    {ShortDetailRow} \cup [ncols : {4}, doc_type : DocTypes, link : {DocHref, NoHref}]

DetailResponses ==
    {ErrorResponse, NoTablePage} \cup {TablePage(r) : r \in SeqsUpTo(DetailRows, MaxRows)}

\* the document GET: an exception, or the HTML of one document
DocResponses == {"error"} \cup Docs

\* cache_file.write_text: written; open() raised; the file was created and the
\* write raised before any byte reached it; the write raised after a prefix
\* that ends inside a multi-byte character reached it
WriteOutcomes == {"ok", "open_fails", "fails_empty", "fails_partial"}

-----------------------------------------------------------------------------
(* SECFilingFetcher: pure parts *)

NoCik == <<>>

ticker_to_cik(t) ==
    CASE t = S_NVDA -> <<"0001045810">>
      [] t = S_MSFT -> <<"0000789019">>
      [] t = S_AAPL -> <<"0000320193">>
      [] t = S_GOOGL -> <<"0001652044">>
      [] t = S_AMZN -> <<"0001018724">>
      [] t = S_TSLA -> <<"0001318605">>
      [] t = S_META -> <<"0001326801">>
      [] OTHER -> NoCik

get_company_cik_any(ticker) == <<"0001045810">>

get_company_cik(ticker) == ticker_to_cik(Upper(ticker))

\* the count=10 get_filing passes to search_filings
SearchCount == 10

\* search_filings, from the response on: the list of filing dicts
search_filings(resp, filing_type, count) ==
    IF resp.kind # "table"
    THEN <<>>
    ELSE LET rows == SubSeq(resp.rows, 1, Min(count, Len(resp.rows)))
             kept == SelectSeq(rows, LAMBDA r : r.ncols >= 4 /\ r.link # NoHref)
         IN  [i \in 1..Len(kept) |->
                 [filing_type |-> filing_type,
                  filing_date |-> kept[i].filing_date,
                  filing_url |-> Url(kept[i].link)]]

\* get_filing: the year filter
filter_by_year(filings, year) ==
    IF year # <<>>
    THEN SelectSeq(filings, LAMBDA f : IsSubstring(year, f.filing_date))
    ELSE filings

MainDocTypes == {"10-K", "10-Q", "10-K/A", "10-Q/A"}

\* get_filing_text: the loop that looks for the main document link
find_doc_link(rows) ==
    LET hits == SelectSeq(rows, LAMBDA r :
                    r.ncols >= 4 /\ r.doc_type \in MainDocTypes /\ r.link # NoHref)
    IN  IF hits = <<>> THEN NoUrl ELSE Url(hits[1].link)

\* filing_url.split("/")[-1]; the cache file is cache_dir / (cache_key + ".txt")
cache_key(filing_url) == filing_url[Len(filing_url)]

\* main --skip-fetch: the stem of output_dir/sec_cache/{ticker}_{filing_type}.txt
skip_fetch_stem(ticker, filing_type) == ticker \o <<"_">> \o filing_type

Garbled == [ok |-> FALSE, text |-> EmptyText]

Stored(t) == [ok |-> TRUE, text |-> t]

-----------------------------------------------------------------------------
(* Outcomes and inputs of the top-level calls *)

NoRet == [kind |-> "none", text |-> EmptyText, code |-> 0]
Returned(t) == [kind |-> "return", text |-> t, code |-> 0]
\* an exception leaves the call; in main() the interpreter then exits with 1
Raised == [kind |-> "raise", text |-> EmptyText, code |-> 1]
Exited(n) == [kind |-> "exit", text |-> EmptyText, code |-> n]

Tickers == {S_nvda, S_IBM}
FilingTypes == {S_10K, S_10Q}
\* year: None and "" are both falsy and both the empty sequence here
Years == {<<>>, S_2024}
\* sections: None and [] are both falsy and both the empty sequence here
SectionLists == {<<>>, <<"Item 1">>}
\* os.getenv("LANGEXTRACT_API_KEY"): None, "", or a key
ApiKeys == {"unset", "empty", "key"}

Args(ticker, filing_type, year, sections, skip_fetch, api_key) ==
    [ticker |-> ticker, filing_type |-> filing_type, year |-> year,
     sections |-> sections, skip_fetch |-> skip_fetch, api_key |-> api_key]

NoArgs == Args(<<>>, <<>>, <<>>, <<>>, FALSE, "unset")

NoDoc == [text |-> EmptyText, extractions |-> <<>>]

FileUnchanged == UNCHANGED <<outDir, cacheDir, cache, cachedFrom>>

\* not api_key
KeyMissing_none_only(api_key) == api_key = "unset"

KeyMissing(api_key) == api_key # "key"

-----------------------------------------------------------------------------
(* How a fetch ends, for each caller *)

\* get_filing / get_filing_text returns t to the caller c, with the trace tr,
\* u being the filing URL get_filing_text was called with (NoUrl: not called).
\* main(): lines 348-352.
FetchReturns(c, u, t, tr) ==
    /\ trace' = tr
    /\ url' = u
    /\ IF c = "main"
       THEN /\ filing_text' = t
            /\ IF t = EmptyText
               THEN pc' = "done" /\ ret' = Exited(1) /\ fetched' = fetched
               ELSE /\ pc' = "extract"
                    /\ ret' = NoRet
                    /\ fetched' = fetched \cup {<<args.ticker, args.filing_type>>}
       ELSE /\ pc' = "done"
            /\ ret' = Returned(t)
            /\ filing_text' = EmptyText
            /\ fetched' = fetched

\* an exception leaves get_filing / get_filing_text (and main(), if it called)
FetchRaises(c, u, tr) ==
    /\ trace' = tr
    /\ url' = u
    /\ pc' = "done"
    /\ ret' = Raised
    /\ filing_text' = EmptyText
    /\ fetched' = fetched

EnterGetFilingText_late_check(c, filing_url, tr) ==
    LET key == cache_key(filing_url)
    IN  IF key \in DOMAIN cache
        THEN IF cache[key].ok
             THEN FetchReturns(c, filing_url, cache[key].text,
                               tr \o <<"GET_detail", "cache_read">>)
             ELSE FetchRaises(c, filing_url, tr \o <<"GET_detail", "cache_read">>)
        ELSE /\ pc' = "detail"
             /\ url' = filing_url
             /\ trace' = tr \o <<"GET_detail">>
             /\ ret' = NoRet
             /\ filing_text' = EmptyText
             /\ fetched' = fetched

\* get_filing_text lines 160-172, entered by the caller c with the trace tr
EnterGetFilingText(c, filing_url, tr) ==
    LET key == cache_key(filing_url)
    IN  IF key \in DOMAIN cache
        THEN IF cache[key].ok
             THEN FetchReturns(c, filing_url, cache[key].text, tr \o <<"cache_read">>)
             ELSE FetchRaises(c, filing_url, tr \o <<"cache_read">>)
        ELSE /\ pc' = "detail"
             /\ url' = filing_url
             /\ trace' = tr \o <<"GET_detail">>
             /\ ret' = NoRet
             /\ filing_text' = EmptyText
             /\ fetched' = fetched

\* get_filing lines 272-279, entered by the caller c with the trace tr
EnterGetFiling(c, ticker, tr) ==
    IF get_company_cik(ticker) = NoCik
    THEN FetchReturns(c, NoUrl, EmptyText, tr)
    ELSE /\ pc' = "search"
         /\ url' = NoUrl
         /\ trace' = tr \o <<"GET_search">>
         /\ ret' = NoRet
         /\ filing_text' = EmptyText
         /\ fetched' = fetched

-----------------------------------------------------------------------------
(* SECFilingFetcher, called directly *)

\* fetcher = SECFilingFetcher(cache_dir); fetcher.get_filing(ticker, ...)
\* with cache_dir = output directory / "sec_cache"
CallGetFiling(ticker, filing_type, year, sections) ==
    /\ pc = "idle"
    /\ outDir
    /\ cacheDir' = TRUE
    /\ caller' = "get_filing"
    /\ args' = Args(ticker, filing_type, year, sections, FALSE, "unset")
    /\ EnterGetFiling("get_filing", ticker, <<>>)
    /\ UNCHANGED <<outDir, cache, cachedFrom, result, artifacts>>

\* fetcher = SECFilingFetcher(cache_dir); fetcher.get_filing_text(filing_url, sections)
CallGetFilingText(filing_url, sections) ==
    /\ pc = "idle"
    /\ outDir
    /\ cacheDir' = TRUE
    /\ caller' = "get_filing_text"
    /\ args' = Args(<<>>, <<>>, <<>>, sections, FALSE, "unset")
    /\ EnterGetFilingText("get_filing_text", filing_url, <<>>)
    /\ UNCHANGED <<outDir, cache, cachedFrom, result, artifacts>>

\* the filing-index GET of search_filings answers; get_filing lines 281-297
SearchResponse(resp) ==
    /\ pc = "search"
    /\ LET found == search_filings(resp, args.filing_type, SearchCount)
           filings == filter_by_year(found, args.year)
       IN  IF filings = <<>>
           THEN FetchReturns(caller, NoUrl, EmptyText, trace)
           ELSE EnterGetFilingText(caller, filings[1].filing_url, trace)
    /\ FileUnchanged
    /\ UNCHANGED <<caller, args, result, artifacts>>

\* the filing detail page GET, tried once more after an exception
DetailResponse_retrying(resp) ==
    /\ pc = "detail"
    /\ IF resp.kind = "error" /\ Cardinality({i \in 1..Len(trace) : trace[i] = "GET_detail"}) < 2
       THEN /\ trace' = trace \o <<"GET_detail">>
            /\ UNCHANGED <<pc, url, ret, filing_text, fetched>>
       ELSE IF resp.kind # "table" \/ find_doc_link(resp.rows) = NoUrl
       THEN FetchReturns(caller, url, EmptyText, trace)
       ELSE /\ pc' = "doc"
            /\ trace' = trace \o <<"sleep", "GET_doc">>
            /\ UNCHANGED <<url, ret, filing_text, fetched>>
    /\ FileUnchanged
    /\ UNCHANGED <<caller, args, result, artifacts>>

\* the filing detail page GET answers; get_filing_text lines 173-203
DetailResponse(resp) ==
    /\ pc = "detail"
    /\ IF resp.kind # "table" \/ find_doc_link(resp.rows) = NoUrl
       THEN FetchReturns(caller, url, EmptyText, trace)
       ELSE /\ pc' = "doc"
            /\ trace' = trace \o <<"sleep", "GET_doc">>
            /\ UNCHANGED <<url, ret, filing_text, fetched>>
    /\ FileUnchanged
    /\ UNCHANGED <<caller, args, result, artifacts>>

\* the document GET answers; get_filing_text lines 204-223
DocResponse(resp, w) ==
    /\ pc = "doc"
    /\ UNCHANGED <<outDir, cacheDir, caller, args, result, artifacts>>
    /\ IF resp = "error"
       THEN FetchReturns(caller, url, EmptyText, trace) /\ UNCHANGED <<cache, cachedFrom>>
       ELSE LET text == IF args.sections # <<>>
                        THEN _extract_sections(resp, args.sections)
                        ELSE _extract_full_text(resp)
                key == cache_key(url)
            IN  CASE w = "ok" ->
                       /\ cache' = (key :> Stored(text)) @@ cache
                       /\ cachedFrom' = (key :> url) @@ cachedFrom
                       /\ FetchReturns(caller, url, text, trace \o <<"cache_write">>)
                  [] w = "open_fails" ->
                       /\ UNCHANGED <<cache, cachedFrom>>
                       /\ FetchReturns(caller, url, EmptyText, trace)
                  [] w = "fails_partial" /\ text # EmptyText ->
                       /\ cache' = (key :> Garbled) @@ cache
                       /\ cachedFrom' = (key :> url) @@ cachedFrom
                       /\ FetchReturns(caller, url, EmptyText,
                                       trace \o <<"cache_write_failed">>)
                  [] OTHER ->
                       /\ cache' = (key :> Stored(EmptyText)) @@ cache
                       /\ cachedFrom' = (key :> url) @@ cachedFrom
                       /\ FetchReturns(caller, url, EmptyText,
                                       trace \o <<"cache_write_failed">>)

-----------------------------------------------------------------------------
(* AnnotatedDocument and Extraction (langextract's data classes, as the     *)
(* exporters read them)                                                     *)

\* Optional values: None is the empty sequence, a present value x is <<x>>
None == <<>>
Some(x) == <<x>>

\* a string known by name and length; Prefix is the slice [:n]
Str(name, n) == [s |-> name, len |-> n]
Prefix(t, n) == [s |-> t.s, len |-> Min(t.len, n)]

Interval(a, b) == Some([start_pos |-> a, end_pos |-> b])

Extraction(class, text, interval, attributes) ==
    [extraction_class |-> class, extraction_text |-> text,
     char_interval |-> interval, attributes |-> attributes]

\* dict.get(key, default)
Get(d, key, default) == IF key \in DOMAIN d THEN d[key] ELSE default

NoAttrs == <<>>

\* the extractions the model draws documents from
FM_revenue ==
    Extraction("financial_metric", Str("revenue was $60.9 billion", 25), Interval(10, 35),
        [metric_name |-> "revenue", value |-> "60.9", unit |-> "USD_billions",
         time_period |-> "fiscal_2024"])
FM_bare ==
    Extraction("financial_metric", Str("$4.93", 5), None, NoAttrs)
FM_segment ==
    Extraction("financial_metric", Str("Data Center revenue reached $18.4 billion", 41),
        Interval(40, 81),
        [metric_name |-> "segment_revenue", value |-> "18.4", unit |-> "USD_billions",
         segment |-> "Data Center"])
FM_empty_segment ==
    Extraction("financial_metric", Str("up 22%", 6), Interval(90, 96),
        [value |-> "22", segment |-> ""])
RF_china ==
    Extraction("risk_factor", Str("geopolitical tensions affecting sales to China", 46),
        Interval(100, 146),
        [risk_category |-> "regulatory", geographic_exposure |-> "china"])
RF_supply ==
    Extraction("risk_factor", Str("supply chain constraints", 24), Interval(150, 174),
        [risk_category |-> "supply_chain"])
BS_bare ==
    Extraction("business_segment", Str("Gaming", 6), None, NoAttrs)
CI_name ==
    Extraction("company_info", Str("NVIDIA Corporation", 18), Interval(0, 18),
        [info_type |-> "company_name"])
MC_up ==
    Extraction("metric_change", Str("up 126% from the prior year", 27), Interval(60, 87),
        [metric_name |-> "revenue", value |-> "126", segment |-> "Data Center"])

Extractions ==
    {FM_revenue, FM_bare, FM_segment, FM_empty_segment, RF_china, BS_bare, CI_name, MC_up}

\* the longest extraction list drawn in full from Extractions
MaxExtractions == 2

AnnotatedDocument(text, extractions) == [text |-> text, extractions |-> extractions]

DocText == MkText("docShort", CleanLen("docShort"))

-----------------------------------------------------------------------------
(* Tables: pd.DataFrame(list of dicts) and DataFrame.to_csv(index=False).   *)
(* A dict is the sequence of its <<key, value>> items in insertion order.   *)

\* a cell: a value, or NaN where the row's dict has no such key
NaN == [nan |-> TRUE, v |-> ""]
Value(x) == [nan |-> FALSE, v |-> x]

Has(row, col) == \E i \in 1..Len(row) : row[i][1] = col

Cell(row, col) ==
    IF Has(row, col)
    THEN Value(row[CHOOSE i \in 1..Len(row) : row[i][1] = col][2])
    ELSE NaN

\* the places <<r, i>> of the keys: item i of the dict of row r
KeyPlaces(data) ==
    UNION {{<<r, i>> : i \in 1..Len(data[r])} : r \in 1..Len(data)}

Before(p, q) == p[1] < q[1] \/ (p[1] = q[1] /\ p[2] < q[2])

\* the keys of all the dicts, each once, in order of first appearance
Columns(data) ==
    LET places == KeyPlaces(data)
        firsts == {p \in places :
                      \A q \in places :
                          Before(q, p) => data[q[1]][q[2]][1] # data[p[1]][p[2]][1]}
    IN  [n \in 1..Cardinality(firsts) |->
            LET p == CHOOSE p \in firsts :
                         Cardinality({q \in firsts : Before(q, p)}) = n - 1
            IN  data[p[1]][p[2]][1]] \o <<>>

\* columns: the union of the keys in order of first appearance; one row per dict,
\* a cell the dict has no key for is NaN
DataFrame(data) ==
    LET dicts == data \o <<>>
        cols == Columns(dicts)
    IN  [columns |-> cols,
         rows |-> [r \in 1..Len(dicts) |->
                      [c \in 1..Len(cols) |-> Cell(dicts[r], cols[c])]]]

\* the header line and one line per row; NaN is written as the empty field
to_csv(df) ==
    [header |-> df.columns,
     lines |-> [r \in 1..Len(df.rows) |->
                   [c \in 1..Len(df.columns) |->
                       IF df.rows[r][c].nan THEN "" ELSE df.rows[r][c].v]]]

-----------------------------------------------------------------------------
(* The exporters of end_to_end_example.py *)

OfClass(extractions, class) ==
    SelectSeq(extractions, LAMBDA e : e.extraction_class = class)

metrics_data_any_class(document) ==
    [i \in 1..Len(document.extractions) |->
        LET metric == document.extractions[i]
        IN  << <<"metric_name", Get(metric.attributes, "metric_name", "unknown")>>,
               <<"value", Get(metric.attributes, "value", "")>>,
               <<"unit", Get(metric.attributes, "unit", "")>>,
               <<"time_period", Get(metric.attributes, "time_period", "")>>,
               <<"segment", Get(metric.attributes, "segment", "")>>,
               <<"text", metric.extraction_text.s>> >>]

metrics_data_unit_unknown(document) ==
    LET metrics == OfClass(document.extractions, "financial_metric")
    IN  [i \in 1..Len(metrics) |->
            LET metric == metrics[i]
            IN  << <<"metric_name", Get(metric.attributes, "metric_name", "unknown")>>,
                   <<"value", Get(metric.attributes, "value", "")>>,
                   <<"unit", Get(metric.attributes, "unit", "unknown")>>,
                   <<"time_period", Get(metric.attributes, "time_period", "")>>,
                   <<"segment", Get(metric.attributes, "segment", "")>>,
                   <<"text", metric.extraction_text.s>> >>]

\* export_financial_metrics lines 72-87: the list of row dicts
metrics_data(document) ==
    LET metrics == OfClass(document.extractions, "financial_metric")
    IN  [i \in 1..Len(metrics) |->
            LET metric == metrics[i]
            IN  << <<"metric_name", Get(metric.attributes, "metric_name", "unknown")>>,
                   <<"value", Get(metric.attributes, "value", "")>>,
                   <<"unit", Get(metric.attributes, "unit", "")>>,
                   <<"time_period", Get(metric.attributes, "time_period", "")>>,
                   <<"segment", Get(metric.attributes, "segment", "")>>,
                   <<"text", metric.extraction_text.s>> >>]

\* export_financial_metrics lines 89-90: the CSV file written
export_financial_metrics(document) == to_csv(DataFrame(metrics_data(document)))


export_risk_factors_excerpt(document) ==
    LET risks == OfClass(document.extractions, "risk_factor")
    IN  [i \in 1..Len(risks) |->
            LET risk == risks[i]
            IN  [category |-> Get(risk.attributes, "risk_category", "unknown"),
                 description |-> Prefix(risk.extraction_text, 150),
                 geographic_exposure |-> Get(risk.attributes, "geographic_exposure", ""),
                 position |->
                    [start |-> IF risk.char_interval # None
                               THEN Some(risk.char_interval[1].start_pos) ELSE None,
                     end |-> IF risk.char_interval # None
                             THEN Some(risk.char_interval[1].end_pos) ELSE None]]]

\* export_risk_factors lines 102-117: the list json.dump writes
export_risk_factors(document) ==
    LET risks == OfClass(document.extractions, "risk_factor")
    IN  [i \in 1..Len(risks) |->
            LET risk == risks[i]
            IN  [category |-> Get(risk.attributes, "risk_category", "unknown"),
                 description |-> risk.extraction_text,
                 geographic_exposure |-> Get(risk.attributes, "geographic_exposure", ""),
                 position |->
                    [start |-> IF risk.char_interval # None
                               THEN Some(risk.char_interval[1].start_pos) ELSE None,
                     end |-> IF risk.char_interval # None
                             THEN Some(risk.char_interval[1].end_pos) ELSE None]]]

segment_data_any_segment(document) ==
    LET segments == OfClass(document.extractions, "business_segment")
        metrics == SelectSeq(document.extractions, LAMBDA e :
                       /\ e.extraction_class = "financial_metric"
                       /\ "segment" \in DOMAIN e.attributes)
    IN  [i \in 1..Len(segments) |->
            << <<"segment_name", segments[i].extraction_text.s>>,
               <<"segment_type", Get(segments[i].attributes, "segment_type", "")>> >>]
        \o
        [i \in 1..Len(metrics) |->
            << <<"segment_name", Get(metrics[i].attributes, "segment", "")>>,
               <<"segment_type", "metric">>,
               <<"metric_name", Get(metrics[i].attributes, "metric_name", "")>>,
               <<"value", Get(metrics[i].attributes, "value", "")>>,
               <<"unit", Get(metrics[i].attributes, "unit", "")>> >>]

\* export_business_segments lines 133-158: the list of row dicts
segment_data(document) ==
    LET segments == OfClass(document.extractions, "business_segment")
        metrics == SelectSeq(document.extractions, LAMBDA e :
                       /\ e.extraction_class = "financial_metric"
                       /\ Get(e.attributes, "segment", "") # "")
    IN  [i \in 1..Len(segments) |->
            << <<"segment_name", segments[i].extraction_text.s>>,
               <<"segment_type", Get(segments[i].attributes, "segment_type", "")>> >>]
        \o
        [i \in 1..Len(metrics) |->
            << <<"segment_name", Get(metrics[i].attributes, "segment", "")>>,
               <<"segment_type", "metric">>,
               <<"metric_name", Get(metrics[i].attributes, "metric_name", "")>>,
               <<"value", Get(metrics[i].attributes, "value", "")>>,
               <<"unit", Get(metrics[i].attributes, "unit", "")>> >>]

\* export_business_segments lines 160-161: the CSV file written
export_business_segments(document) == to_csv(DataFrame(segment_data(document)))

\* the order in which attributes.items() yields the keys the model uses
AttrKeyOrder ==
    <<"metric_name", "value", "unit", "time_period", "segment", "risk_category",
      "geographic_exposure", "segment_type", "info_type">>

Items(attributes) ==
    LET keys == SelectSeq(AttrKeyOrder, LAMBDA k : k \in DOMAIN attributes)
    IN  [i \in 1..Len(keys) |-> <<keys[i], attributes[keys[i]]>>]

export_to_dataframe_with_attributes(document) ==
    LET kept == SelectSeq(document.extractions, LAMBDA e : e.attributes # NoAttrs)
    IN  DataFrame(
            [i \in 1..Len(kept) |->
                LET extraction == kept[i]
                    items == Items(extraction.attributes)
                IN  << << <<"extraction_class">>, extraction.extraction_class>>,
                       << <<"extraction_text">>, extraction.extraction_text.s>>,
                       << <<"start_pos">>,
                          IF extraction.char_interval # None
                          THEN Some(extraction.char_interval[1].start_pos) ELSE None>>,
                       << <<"end_pos">>,
                          IF extraction.char_interval # None
                          THEN Some(extraction.char_interval[1].end_pos) ELSE None>> >>
                    \o
                    [k \in 1..Len(items) |-> << <<"attr_", items[k][1]>>, items[k][2]>>]])

\* export_to_dataframe lines 43-59
export_to_dataframe(document) ==
    DataFrame(
        [i \in 1..Len(document.extractions) |->
            LET extraction == document.extractions[i]
                items == Items(extraction.attributes)
            IN  << << <<"extraction_class">>, extraction.extraction_class>>,
                   << <<"extraction_text">>, extraction.extraction_text.s>>,
                   << <<"start_pos">>,
                      IF extraction.char_interval # None
                      THEN Some(extraction.char_interval[1].start_pos) ELSE None>>,
                   << <<"end_pos">>,
                      IF extraction.char_interval # None
                      THEN Some(extraction.char_interval[1].end_pos) ELSE None>> >>
                \o
                [k \in 1..Len(items) |-> << <<"attr_", items[k][1]>>, items[k][2]>>]])


\* seq[:n]
Take(seq, n) == SubSeq(seq, 1, Min(n, Len(seq)))

\* the keys of Counter(seq), in order of first appearance
Distinct(seq) ==
    LET s == seq \o <<>>
        firsts == {i \in 1..Len(s) : \A j \in 1..(i - 1) : s[j] # s[i]}
    IN  [n \in 1..Cardinality(firsts) |->
            s[CHOOSE i \in firsts : Cardinality({j \in firsts : j < i}) = n - 1]] \o <<>>

Count(seq, x) == Cardinality({i \in 1..Len(seq) : seq[i] = x})

\* the items of Counter(seq) as they are, unsorted
most_common_unsorted(seq) ==
    LET s == seq \o <<>>
        keys == Distinct(s)
    IN  [i \in 1..Len(keys) |-> <<keys[i], Count(s, keys[i])>>] \o <<>>

\* Counter(seq).most_common(): <<key, count>> by descending count, equal counts
\* in order of first appearance (sorted() is stable)
most_common(seq) ==
    LET s == seq \o <<>>
        keys == Distinct(s)
        counts == [i \in 1..Len(keys) |-> Count(s, keys[i])] \o <<>>
        Ahead(n) == {m \in 1..Len(keys) :
                        counts[m] > counts[n] \/ (counts[m] = counts[n] /\ m < n)}
    IN  [p \in 1..Len(keys) |->
            LET n == CHOOSE n \in 1..Len(keys) : Cardinality(Ahead(n)) = p - 1
            IN  <<keys[n], counts[n]>>] \o <<>>

\* the slices of generate_summary_report
MaxCompanyInfo == 5
MaxMetricRows == 10
MaxSegments == 5
MaxRiskSamples == 3
ExcerptLen == 150

risk_excerpt_at_limit(extraction_text) ==
    IF extraction_text.len >= ExcerptLen
    THEN [body |-> Prefix(extraction_text, ExcerptLen), ellipsis |-> TRUE]
    ELSE [body |-> extraction_text, ellipsis |-> FALSE]

\* generate_summary_report line 255
risk_excerpt(extraction_text) ==
    IF extraction_text.len > ExcerptLen
    THEN [body |-> Prefix(extraction_text, ExcerptLen), ellipsis |-> TRUE]
    ELSE [body |-> extraction_text, ellipsis |-> FALSE]

generate_summary_report_dated(document, ticker, filing_type) ==
    << <<"generated", Cardinality(DOMAIN artifacts)>> >> \o
   (LET company_info == OfClass(document.extractions, "company_info")
        metrics == OfClass(document.extractions, "financial_metric")
        risks == OfClass(document.extractions, "risk_factor")
        segments == OfClass(document.extractions, "business_segment")
        info5 == Take(company_info, MaxCompanyInfo)
        metrics10 == Take(metrics, MaxMetricRows)
        segments5 == Take(segments, MaxSegments)
        risks3 == Take(risks, MaxRiskSamples)
        risk_categories ==
            most_common([i \in 1..Len(risks) |->
                            Get(risks[i].attributes, "risk_category", "unknown")])
    IN  << <<"title", ticker, filing_type>>,
           <<"total", Len(document.extractions)>>,
           <<"metrics", Len(metrics)>>,
           <<"risks", Len(risks)>>,
           <<"segments", Len(segments)>>,
           <<"length", document.text.len>>,
           <<"## Company Information">> >>
        \o [i \in 1..Len(info5) |->
               <<"info", Get(info5[i].attributes, "info_type", "unknown"),
                 info5[i].extraction_text>>]
        \o << <<"## Key Financial Metrics">> >>
        \o [i \in 1..Len(metrics10) |->
               <<"metric", Get(metrics10[i].attributes, "metric_name", "unknown"),
                 Get(metrics10[i].attributes, "value", ""),
                 Get(metrics10[i].attributes, "unit", ""),
                 Get(metrics10[i].attributes, "time_period", "")>>]
        \o << <<"## Business Segments">> >>
        \o [i \in 1..Len(segments5) |->
               <<"segment", segments5[i].extraction_text,
                 Get(segments5[i].attributes, "segment_type", "unknown")>>]
        \o << <<"## Risk Factor Categories">> >>
        \o [i \in 1..Len(risk_categories) |->
               <<"category", risk_categories[i][1], risk_categories[i][2]>>]
        \o << <<"## Sample Risk Factors">> >>
        \o [i \in 1..Len(risks3) |->
               <<"risk", Get(risks3[i].attributes, "risk_category", "unknown"),
                 risk_excerpt(risks3[i].extraction_text)>>]
        \o << <<"footer">> >>)

\* generate_summary_report lines 182-265: the lines joined into the report
generate_summary_report(document, ticker, filing_type) ==
    LET company_info == OfClass(document.extractions, "company_info")
        metrics == OfClass(document.extractions, "financial_metric")
        risks == OfClass(document.extractions, "risk_factor")
        segments == OfClass(document.extractions, "business_segment")
        info5 == Take(company_info, MaxCompanyInfo)
        metrics10 == Take(metrics, MaxMetricRows)
        segments5 == Take(segments, MaxSegments)
        risks3 == Take(risks, MaxRiskSamples)
        risk_categories ==
            most_common([i \in 1..Len(risks) |->
                            Get(risks[i].attributes, "risk_category", "unknown")])
    IN  << <<"title", ticker, filing_type>>,
           <<"total", Len(document.extractions)>>,
           <<"metrics", Len(metrics)>>,
           <<"risks", Len(risks)>>,
           <<"segments", Len(segments)>>,
           <<"length", document.text.len>>,
           <<"## Company Information">> >>
        \o [i \in 1..Len(info5) |->
               <<"info", Get(info5[i].attributes, "info_type", "unknown"),
                 info5[i].extraction_text>>]
        \o << <<"## Key Financial Metrics">> >>
        \o [i \in 1..Len(metrics10) |->
               <<"metric", Get(metrics10[i].attributes, "metric_name", "unknown"),
                 Get(metrics10[i].attributes, "value", ""),
                 Get(metrics10[i].attributes, "unit", ""),
                 Get(metrics10[i].attributes, "time_period", "")>>]
        \o << <<"## Business Segments">> >>
        \o [i \in 1..Len(segments5) |->
               <<"segment", segments5[i].extraction_text,
                 Get(segments5[i].attributes, "segment_type", "unknown")>>]
        \o << <<"## Risk Factor Categories">> >>
        \o [i \in 1..Len(risk_categories) |->
               <<"category", risk_categories[i][1], risk_categories[i][2]>>]
        \o << <<"## Sample Risk Factors">> >>
        \o [i \in 1..Len(risks3) |->
               <<"risk", Get(risks3[i].attributes, "risk_category", "unknown"),
                 risk_excerpt(risks3[i].extraction_text)>>]
        \o << <<"footer">> >>

-----------------------------------------------------------------------------
(* analyze_extractions of financial_extraction.py *)

MaxSampleMetrics == 5
MaxSampleRisks == 3

\* the percentages are computed before the loop over the entity types
analyze_extractions_total_first(document) ==
    [raised |-> Len(document.extractions) = 0, printed |-> <<>>]

\* lines 262-295: what is printed, or ZeroDivisionError raised by
\* count / len(result.extractions), which is evaluated once per entity type
analyze_extractions(document) ==
    LET total == Len(document.extractions)
        entity_counts ==
            most_common([i \in 1..total |-> document.extractions[i].extraction_class])
        metrics == Take(OfClass(document.extractions, "financial_metric"), MaxSampleMetrics)
        risks == Take(OfClass(document.extractions, "risk_factor"), MaxSampleRisks)
    IN  IF entity_counts # <<>> /\ total = 0
        THEN [raised |-> TRUE, printed |-> <<>>]
        ELSE [raised |-> FALSE,
              printed |->
                  << <<"total", total>>, <<"length", document.text.len>> >>
                  \o [i \in 1..Len(entity_counts) |->
                         <<"type", entity_counts[i][1], entity_counts[i][2],
                           (entity_counts[i][2] * 1000) \div total>>]
                  \o [i \in 1..Len(metrics) |->
                         <<"metric", Get(metrics[i].attributes, "metric_name", "unknown"),
                           Get(metrics[i].attributes, "value", "N/A"),
                           Get(metrics[i].attributes, "unit", "")>>]
                  \o [i \in 1..Len(risks) |->
                         <<"risk", Get(risks[i].attributes, "risk_category", "unknown")>>]]

\* save_and_visualize: the JSONL file mirrors the document, the HTML file is
\* lx.visualize of that JSONL file
save_jsonl(document) == document
visualize(jsonl) == [visualization_of |-> jsonl]

Suffixes_without_visualization ==
    {".jsonl", "_metrics.csv", "_risks.json", "_segments.csv", "_summary.md", "_full.csv"}

\* the seven files of step 4, by the suffix after {ticker}_{filing_type}_extraction
Suffixes ==
    {".jsonl", "_visualization.html", "_metrics.csv", "_risks.json", "_segments.csv",
     "_summary.md", "_full.csv"}

\* the content main() writes to the file with this suffix
Artifact(suffix, document, ticker, filing_type) ==
    CASE suffix = ".jsonl" -> save_jsonl(document)
      [] suffix = "_visualization.html" -> visualize(save_jsonl(document))
      [] suffix = "_metrics.csv" -> export_financial_metrics(document)
      [] suffix = "_risks.json" -> export_risk_factors(document)
      [] suffix = "_segments.csv" -> export_business_segments(document)
      [] suffix = "_summary.md" -> generate_summary_report(document, ticker, filing_type)
      [] OTHER -> to_csv(export_to_dataframe(document))

\* f"{ticker}_{filing_type}_extraction" + suffix
ArtifactName(ticker, filing_type, suffix) == <<ticker, filing_type, suffix>>

-----------------------------------------------------------------------------
(* main() of end_to_end_example.py *)

MainTickers == {S_NVDA, S_IBM}
MainFilingTypes == {S_10K}

\* the extraction lists extract_from_text returns in a run of main()
MainExtractionLists == {<<>>, <<FM_revenue, RF_china>>}

\* main() lines 317-361: argument parsing to the end of step 1, or to the
\* filing-index request of get_filing
RunMain(ticker, filing_type, year, skip_fetch, api_key) ==
    /\ pc = "idle"
    /\ caller' = "main"
    /\ args' = Args(ticker, filing_type, year, <<>>, skip_fetch, api_key)
    /\ outDir' = TRUE
    /\ UNCHANGED <<cache, cachedFrom, result, artifacts>>
    /\ LET tr0 == IF outDir THEN <<>> ELSE <<"mkdir_out">>
           stem == skip_fetch_stem(ticker, filing_type)
       IN  IF KeyMissing(api_key)
           THEN /\ pc' = "done"
                /\ ret' = Exited(1)
                /\ trace' = tr0
                /\ UNCHANGED <<cacheDir, url, filing_text, fetched>>
           ELSE IF ~skip_fetch
           THEN /\ cacheDir' = TRUE
                /\ EnterGetFiling("main", ticker,
                       tr0 \o (IF cacheDir THEN <<>> ELSE <<"mkdir_cache">>))
           ELSE /\ UNCHANGED <<cacheDir, url, fetched>>
                /\ IF stem \in DOMAIN cache
                   THEN /\ trace' = tr0 \o <<"cache_read">>
                        /\ IF cache[stem].ok
                           THEN /\ filing_text' = cache[stem].text
                                /\ pc' = "extract"
                                /\ ret' = NoRet
                           ELSE /\ filing_text' = EmptyText
                                /\ pc' = "done"
                                /\ ret' = Raised
                   ELSE /\ trace' = tr0
                        /\ filing_text' = EmptyText
                        /\ pc' = "done"
                        /\ ret' = Exited(1)

\* main() lines 367-373: extract_from_text(text=filing_text, ...) returns
ExtractReturns(extractions) ==
    /\ pc = "extract"
    /\ pc' = "export"
    /\ result' = AnnotatedDocument(filing_text, extractions)
    /\ trace' = trace \o <<"extract">>
    /\ FileUnchanged
    /\ UNCHANGED <<fetched, caller, args, url, ret, filing_text, artifacts>>

\* main() lines 367-373: the extraction service fails and lx.extract raises
ExtractRaises ==
    /\ pc = "extract"
    /\ pc' = "done"
    /\ ret' = Raised
    /\ trace' = trace \o <<"extract">>
    /\ filing_text' = EmptyText
    /\ FileUnchanged
    /\ UNCHANGED <<fetched, caller, args, url, result, artifacts>>

\* the order in which step 4 writes the files
WriteOrder ==
    <<".jsonl", "_visualization.html", "_metrics.csv", "_risks.json", "_segments.csv",
      "_summary.md", "_full.csv">>

\* main() lines 375-429: analyze, save and export, completion message
FinishMain ==
    /\ pc = "export"
    /\ pc' = "done"
    /\ IF analyze_extractions(result).raised
       THEN /\ ret' = Raised
            /\ trace' = trace \o <<"analyze">>
            /\ UNCHANGED artifacts
       ELSE /\ ret' = Returned(EmptyText)
            /\ trace' = trace \o <<"analyze">> \o WriteOrder \o <<"complete">>
            /\ artifacts' =
                  [n \in {ArtifactName(args.ticker, args.filing_type, x) : x \in Suffixes} |->
                      Artifact(n[3], result, args.ticker, args.filing_type)] @@ artifacts
    /\ filing_text' = EmptyText
    /\ FileUnchanged
    /\ UNCHANGED <<fetched, caller, args, url, result>>

\* the finished call's outcome has been taken; the next call can start
Return ==
    /\ pc = "done"
    /\ pc' = "idle"
    /\ caller' = "none"
    /\ args' = NoArgs
    /\ url' = NoUrl
    /\ trace' = <<>>
    /\ ret' = NoRet
    /\ result' = NoDoc
    /\ FileUnchanged
    /\ UNCHANGED <<fetched, filing_text, artifacts>>

-----------------------------------------------------------------------------
(* The pipeline *)

Init ==
    /\ outDir \in BOOLEAN
    /\ cacheDir = FALSE
    /\ cache = <<>>
    /\ cachedFrom = <<>>
    /\ fetched = {}
    /\ pc = "idle"
    /\ caller = "none"
    /\ args = NoArgs
    /\ url = NoUrl
    /\ trace = <<>>
    /\ ret = NoRet
    /\ filing_text = EmptyText
    /\ result = NoDoc
    /\ artifacts = <<>>

Next ==
    \/ \E t \in Tickers, f \in FilingTypes, y \in Years, s \in SectionLists :
          CallGetFiling(t, f, y, s)
    \/ \E u \in URLs, s \in SectionLists : CallGetFilingText(u, s)
    \/ \E t \in MainTickers, f \in MainFilingTypes, y \in Years, k \in BOOLEAN,
          a \in ApiKeys :
          RunMain(t, f, y, k, a)
    \/ \E r \in SearchResponses : SearchResponse(r)
    \/ \E r \in DetailResponses : DetailResponse(r)
    \/ \E r \in DocResponses, w \in WriteOutcomes : DocResponse(r, w)
    \/ \E e \in MainExtractionLists : ExtractReturns(e)
    \/ ExtractRaises
    \/ FinishMain
    \/ Return

Spec == Init /\ [][Next]_vars

-----------------------------------------------------------------------------
(* The exporters on their own: any AnnotatedDocument, the five export       *)
(* operations of step 4 in any order, any number of times                   *)

\* risk factors whose text is longer than, and exactly as long as, the excerpt
\* of the summary report
RF_long ==
    Extraction("risk_factor", Str("export controls may restrict ... (200 characters)", 200),
        Interval(200, 400), [risk_category |-> "regulatory"])
RF_exact ==
    Extraction("risk_factor", Str("demand may decline ... (150 characters)", 150),
        None, NoAttrs)

RiskPool == {RF_supply, RF_long, RF_exact}

\* the longest list of risk factors drawn in full from RiskPool
MaxRisks == 3

Ordinals == <<"1", "2", "3", "4", "5", "6", "7", "8", "9", "10", "11", "12", "13">>

\* the i-th extraction of a class in a long list: told apart by text and
\* attributes; the texts of the risk factors are 149, 150, 151, ... characters long
Numbered(class, i) ==
    Extraction(class,
        Str(Ordinals[i], IF class = "risk_factor" THEN 148 + i ELSE Len(Ordinals[i])),
        Interval(i, i + 1),
        CASE class = "company_info" -> [info_type |-> Ordinals[i]]
          [] class = "financial_metric" -> [metric_name |-> Ordinals[i], value |-> Ordinals[i]]
          [] class = "business_segment" -> [segment_type |-> Ordinals[i]]
          [] OTHER -> [risk_category |-> Ordinals[i]])

LongClasses == <<"company_info", "financial_metric", "business_segment", "risk_factor">>

\* the most extractions of one class in a long list
MaxLong == 11

\* n extractions of each class of LongClasses, the classes taking turns
Mixed(n) ==
    [i \in 1..(Len(LongClasses) * n) |->
        Numbered(LongClasses[((i - 1) % Len(LongClasses)) + 1],
                 ((i - 1) \div Len(LongClasses)) + 1)]

LongLists == {Mixed(n) : n \in 0..MaxLong}

ExportDocuments ==
    {AnnotatedDocument(DocText, e) :
        e \in SeqsUpTo(Extractions, MaxExtractions) \cup SeqsUpTo(RiskPool, MaxRisks)
                 \cup LongLists}

ExportArgs == Args(S_NVDA, S_10K, <<>>, <<>>, FALSE, "key")

\* an export operation that uses up the attributes it reads
Write_consuming(suffix) ==
    /\ pc = "export"
    /\ artifacts' =
          (ArtifactName(args.ticker, args.filing_type, suffix) :>
              Artifact(suffix, result, args.ticker, args.filing_type)) @@ artifacts
    /\ trace' = IF ArtifactName(args.ticker, args.filing_type, suffix) \in DOMAIN artifacts
                THEN <<"replace">> ELSE <<"create">>
    /\ result' = [result EXCEPT !.extractions =
                     [i \in 1..Len(result.extractions) |->
                         [result.extractions[i] EXCEPT !.attributes = NoAttrs]]]
    /\ FileUnchanged
    /\ UNCHANGED <<fetched, pc, caller, args, url, ret, filing_text>>

\* an export operation writes its file: open(output_file, "w") creates the file
\* or replaces the one that is there
Write(suffix) ==
    /\ pc = "export"
    /\ artifacts' =
          (ArtifactName(args.ticker, args.filing_type, suffix) :>
              Artifact(suffix, result, args.ticker, args.filing_type)) @@ artifacts
    /\ trace' = IF ArtifactName(args.ticker, args.filing_type, suffix) \in DOMAIN artifacts
                THEN <<"replace">> ELSE <<"create">>
    /\ FileUnchanged
    /\ UNCHANGED <<fetched, pc, caller, args, url, ret, filing_text, result>>

\* analyze_extractions(result) prints its summary, or raises
AnalyzeExtractions ==
    /\ pc = "export"
    /\ trace' = <<"analyze">>
    /\ IF analyze_extractions(result).raised
       THEN pc' = "done" /\ ret' = Raised
       ELSE UNCHANGED <<pc, ret>>
    /\ FileUnchanged
    /\ UNCHANGED <<fetched, caller, args, url, filing_text, result, artifacts>>

ExportFinancialMetrics == Write("_metrics.csv")
ExportRiskFactors == Write("_risks.json")
ExportBusinessSegments == Write("_segments.csv")
GenerateSummaryReport == Write("_summary.md")
ExportFullTable == Write("_full.csv")

InitExport ==
    /\ outDir = TRUE
    /\ cacheDir = FALSE
    /\ cache = <<>>
    /\ cachedFrom = <<>>
    /\ fetched = {}
    /\ pc = "export"
    /\ caller = "main"
    /\ args = ExportArgs
    /\ url = NoUrl
    /\ trace = <<>>
    /\ ret = NoRet
    /\ filing_text = EmptyText
    /\ result \in ExportDocuments
    /\ artifacts = <<>>

NextExport ==
    \/ AnalyzeExtractions
    \/ ExportFinancialMetrics
    \/ ExportRiskFactors
    \/ ExportBusinessSegments
    \/ GenerateSummaryReport
    \/ ExportFullTable

SpecExport == InitExport /\ [][NextExport]_vars

-----------------------------------------------------------------------------
(* Claims about the metrics table *)

MetricsFile == ArtifactName(ExportArgs.ticker, ExportArgs.filing_type, "_metrics.csv")

\* positions of the financial_metric extractions in the document's list
MetricIndexes ==
    {i \in 1..Len(result.extractions) :
        result.extractions[i].extraction_class = "financial_metric"}

\* the k-th of them, counting from the start of the list
KthMetric(k) ==
    CHOOSE i \in MetricIndexes : Cardinality({j \in MetricIndexes : j <= i}) = k

MetricsColumns == <<"metric_name", "value", "unit", "time_period", "segment", "text">>

\* C9: the metrics CSV holds exactly one data row per extraction whose class is
\* exactly "financial_metric", none for another class, in the order of the list:
\* row k carries the text and the attributes of the k-th such extraction
C9_OneRowPerMetric ==
    MetricsFile \in DOMAIN artifacts =>
        LET csv == artifacts[MetricsFile]
        IN  /\ Len(csv.lines) = Cardinality(MetricIndexes)
            /\ \A k \in 1..Len(csv.lines) :
                  LET e == result.extractions[KthMetric(k)]
                  IN  /\ csv.lines[k][6] = e.extraction_text.s
                      /\ \A c \in 1..5 :
                            MetricsColumns[c] \in DOMAIN e.attributes =>
                                csv.lines[k][c] = e.attributes[MetricsColumns[c]]

\* C9 witness: the export ran on a list that mixes a financial_metric with an
\* extraction of another class that carries metric attributes
C9_Witness ==
    /\ MetricsFile \in DOMAIN artifacts
    /\ result.extractions = <<MC_up, FM_revenue>>
    /\ Len(artifacts[MetricsFile].lines) = 1

\* C10 as stated: every row has the six columns and every attribute column whose
\* key the extraction lacks holds the empty string
C10_MissingIsEmpty ==
    MetricsFile \in DOMAIN artifacts =>
        LET csv == artifacts[MetricsFile]
        IN  \A k \in 1..Len(csv.lines) :
               /\ csv.header = MetricsColumns
               /\ \A c \in 1..5 :
                     MetricsColumns[c] \notin
                         DOMAIN result.extractions[KthMetric(k)].attributes =>
                             csv.lines[k][c] = ""

\* C10 amended: every row has the six columns; a missing value, unit, time_period
\* or segment holds the empty string and a missing metric_name holds "unknown"
C10_MissingDefaults ==
    MetricsFile \in DOMAIN artifacts =>
        LET csv == artifacts[MetricsFile]
        IN  \A k \in 1..Len(csv.lines) :
               /\ csv.header = MetricsColumns
               /\ \A c \in 1..5 :
                     MetricsColumns[c] \notin
                         DOMAIN result.extractions[KthMetric(k)].attributes =>
                             csv.lines[k][c] = IF c = 1 THEN "unknown" ELSE ""

\* C10 witness: a row was written for a financial_metric without any attribute
C10_Witness ==
    /\ MetricsFile \in DOMAIN artifacts
    /\ result.extractions = <<FM_bare>>
    /\ artifacts[MetricsFile].lines = << <<"unknown", "", "", "", "", "$4.93">> >>

-----------------------------------------------------------------------------
(* Claims about the fetcher and main() *)

\* the HTTP requests among the side effects tr, in order
Requests(tr) == SelectSeq(tr, LAMBDA e : e \in {"GET_search", "GET_detail", "GET_doc"})

Touches(tr, events) == \E i \in 1..Len(tr) : tr[i] \in events

\* a finished or running call of get_filing: direct, or from main() without --skip-fetch
IsGetFiling ==
    \/ caller = "get_filing"
    \/ caller = "main" /\ ~args.skip_fetch /\ args.api_key = "key"

\* the call got its text from an existing cache file of the fetcher
ServedFromCache ==
    /\ caller = "get_filing_text" \/ IsGetFiling
    /\ Touches(trace, {"cache_read"})
    /\ ret.kind # "raise"
    /\ pc # "idle"

\* C1: get_filing never lets an exception reach its caller; it returns the
\* filing's text or the empty string, and the empty string whenever it neither
\* read nor wrote the filing's cache file
C1_GetFilingNeverRaises ==
    (pc = "done" /\ caller = "get_filing") =>
        /\ ret.kind = "return"
        /\ ~Touches(trace, {"cache_read", "cache_write"}) => ret.text = EmptyText

\* C2 as stated: a call of get_filing or get_filing_text that returns text read
\* from an existing cache file issues no HTTP request
C2_CacheHitNoRequest ==
    ServedFromCache => Requests(trace) = <<>>

\* C2 amended: a get_filing_text call served from the cache issues no HTTP
\* request; a get_filing call served from the cache issues exactly one, the
\* filing-index search, and neither the detail-page nor the document request
C2_CacheHitOnlySearch ==
    ServedFromCache =>
        Requests(trace) = IF caller = "get_filing_text" THEN <<>> ELSE <<"GET_search">>

\* C2 witness: a get_filing call returned a non-empty text read from the cache
C2_Witness ==
    /\ pc = "done"
    /\ caller = "get_filing"
    /\ ServedFromCache
    /\ ret.kind = "return"
    /\ ret.text # EmptyText

\* C3: after a run of main() without --skip-fetch fetched and cached the filing
\* of a ticker and filing type, a run with --skip-fetch for the same ticker,
\* filing type and output directory finds the cached text and goes on to step 2
C3_SkipFetchFindsCache ==
    (/\ caller = "main"
     /\ args.skip_fetch
     /\ args.api_key = "key"
     /\ <<args.ticker, args.filing_type>> \in fetched
     /\ pc # "idle")
        => /\ Touches(trace, {"cache_read"})
           /\ ret # Exited(1)

\* C4 as stated: without the credential main() exits non-zero before any other
\* work: no directory created, no file written, no request, no extraction
C4_NoWorkBeforeExit ==
    (pc = "done" /\ caller = "main" /\ args.api_key # "key") =>
        /\ ret = Exited(1)
        /\ trace = <<>>

\* C4 amended: without the credential main() exits non-zero having written no
\* file, issued no request and made no extraction call; the one thing it may
\* have done is create the output directory
C4_OnlyOutputDirBeforeExit ==
    (pc = "done" /\ caller = "main" /\ args.api_key # "key") =>
        /\ ret = Exited(1)
        /\ trace \in {<<>>, <<"mkdir_out">>}

\* C4 witness: main() ran with an empty credential and exited with status 1
C4_Witness ==
    /\ pc = "done"
    /\ caller = "main"
    /\ args.api_key = "empty"
    /\ ret = Exited(1)

\* C5: main() never calls extract_from_text with an empty filing text, on the
\* fetch path and on the --skip-fetch path
C5_NoExtractionOfEmptyText ==
    /\ pc = "extract" => filing_text # EmptyText
    /\ (caller = "main" /\ pc = "export") => result.text # EmptyText

\* the keys of the static ticker table of get_company_cik
TableTickers == {S_NVDA, S_MSFT, S_AAPL, S_GOOGL, S_AMZN, S_TSLA, S_META}

\* C6: for a ticker whose upper-cased form is not in the static table,
\* get_filing returns the empty string with no request attempted and no cache
\* file read or written
C6_UnknownTickerNoNetwork ==
    (pc = "done" /\ IsGetFiling /\ Upper(args.ticker) \notin TableTickers) =>
        /\ ret = IF caller = "main" THEN Exited(1) ELSE Returned(EmptyText)
        /\ Requests(trace) = <<>>
        /\ ~Touches(trace, {"cache_read", "cache_write", "cache_write_failed"})
        /\ url = NoUrl

\* C6 witness: get_filing was called with a ticker outside the table
C6_Witness ==
    /\ pc = "done"
    /\ caller = "get_filing"
    /\ args.ticker = S_IBM
    /\ ret = Returned(EmptyText)

\* C7: a cache entry for a URL is created only by a successful fetch of that
\* URL; a failure path of get_filing_text leaves the cache directory unchanged;
\* a call that finds the entry returns exactly the stored text
C7_CacheLifecycle ==
    /\ (ServedFromCache /\ url # NoUrl) => cachedFrom[cache_key(url)] = url
    /\ (pc = "done" /\ ret.text = EmptyText) => ~Touches(trace, {"cache_write_failed"})
    /\ (ServedFromCache /\ url # NoUrl /\ pc = "done" /\ caller # "main") =>
           ret = Returned(cache[cache_key(url)].text)

\* C8: a cache hit for URL u returns text that was fetched from u
C8_HitReturnsTextOfSameUrl ==
    (ServedFromCache /\ url # NoUrl /\ cache[cache_key(url)].text # EmptyText) =>
        cachedFrom[cache_key(url)] = url

-----------------------------------------------------------------------------
(* Claims about the other exports *)

\* the file an export operation of SpecExport writes
FileOf(suffix) == ArtifactName(ExportArgs.ticker, ExportArgs.filing_type, suffix)

\* positions of the extractions of a class in the document's list
ClassIndexes(class) ==
    {i \in 1..Len(result.extractions) : result.extractions[i].extraction_class = class}

\* the k-th smallest member of a set of positions
Kth(S, k) == CHOOSE i \in S : Cardinality({j \in S : j <= i}) = k

\* C11: the risks JSON holds exactly one record per extraction of class
\* "risk_factor", in list order; category is the risk_category attribute or
\* "unknown", description the whole extraction text, geographic_exposure that
\* attribute or "", position the bounds of the character interval, both null
\* exactly when the extraction has no character interval
C11_OneRecordPerRisk ==
    FileOf("_risks.json") \in DOMAIN artifacts =>
        LET json == artifacts[FileOf("_risks.json")]
            at == ClassIndexes("risk_factor")
        IN  /\ Len(json) = Cardinality(at)
            /\ \A k \in 1..Len(json) :
                  LET e == result.extractions[Kth(at, k)]
                  IN  /\ json[k].category =
                            IF "risk_category" \in DOMAIN e.attributes
                            THEN e.attributes.risk_category ELSE "unknown"
                      /\ json[k].description = e.extraction_text
                      /\ json[k].geographic_exposure =
                            IF "geographic_exposure" \in DOMAIN e.attributes
                            THEN e.attributes.geographic_exposure ELSE ""
                      /\ (e.char_interval = None) <=> (json[k].position.start = None)
                      /\ (e.char_interval = None) <=> (json[k].position.end = None)
                      /\ e.char_interval # None =>
                            /\ json[k].position.start = <<e.char_interval[1].start_pos>>
                            /\ json[k].position.end = <<e.char_interval[1].end_pos>>

\* C11 witness: the export ran on a long risk factor without
\* geographic_exposure followed by one without attributes and interval
C11_Witness ==
    /\ FileOf("_risks.json") \in DOMAIN artifacts
    /\ result.extractions = <<RF_long, RF_exact>>
    /\ Len(artifacts[FileOf("_risks.json")]) = 2
    /\ artifacts[FileOf("_risks.json")][1].description.len = 200
    /\ artifacts[FileOf("_risks.json")][2].position.start = None

\* positions of the financial_metric extractions with a non-empty segment attribute
SegmentMetricIndexes ==
    {i \in ClassIndexes("financial_metric") :
        /\ "segment" \in DOMAIN result.extractions[i].attributes
        /\ result.extractions[i].attributes.segment # ""}

\* the field of a CSV line under the column of this name
Field(csv, line, name) ==
    line[CHOOSE c \in 1..Len(csv.header) : csv.header[c] = name]

\* C12: the segments CSV holds one row per business_segment extraction (name =
\* its text, type = its segment_type attribute) and one row per financial_metric
\* extraction whose segment attribute is present and non-empty (name = the
\* segment value, type = "metric", with metric_name, value and unit); a
\* financial_metric with an absent or empty segment gives no row
C12_SegmentRows ==
    FileOf("_segments.csv") \in DOMAIN artifacts =>
        LET csv == artifacts[FileOf("_segments.csv")]
            segs == ClassIndexes("business_segment")
            mets == SegmentMetricIndexes
            n == Cardinality(segs)
        IN  /\ Len(csv.lines) = n + Cardinality(mets)
            /\ \A k \in 1..n :
                  LET e == result.extractions[Kth(segs, k)]
                  IN  /\ Field(csv, csv.lines[k], "segment_name") = e.extraction_text.s
                      /\ "segment_type" \in DOMAIN e.attributes =>
                            Field(csv, csv.lines[k], "segment_type") = e.attributes.segment_type
            /\ \A k \in 1..Cardinality(mets) :
                  LET e == result.extractions[Kth(mets, k)]
                      line == csv.lines[n + k]
                  IN  /\ Field(csv, line, "segment_name") = e.attributes.segment
                      /\ Field(csv, line, "segment_type") = "metric"
                      /\ \A a \in {"metric_name", "value", "unit"} :
                            a \in DOMAIN e.attributes =>
                                Field(csv, line, a) = e.attributes[a]

\* C12 witness: the export ran on a metric that names a segment followed by a
\* business segment and wrote both row shapes, the business segment first
C12_Witness ==
    /\ FileOf("_segments.csv") \in DOMAIN artifacts
    /\ result.extractions = <<FM_segment, BS_bare>>
    /\ artifacts[FileOf("_segments.csv")].lines =
          << <<"Gaming", "", "", "", "">>,
             <<"Data Center", "metric", "segment_revenue", "18.4", "USD_billions">> >>

\* the cell of row r of a DataFrame under the column col
At(df, r, col) ==
    df.rows[r][CHOOSE c \in 1..Len(df.columns) : df.columns[c] = col]

HasColumn(df, col) == \E c \in 1..Len(df.columns) : df.columns[c] = col

\* C13: the full table has exactly one row per extraction, in list order,
\* whatever the classes and the attribute keys; the attribute columns a row has
\* a value in are exactly the keys of that extraction's attributes
C13_OneRowPerExtraction ==
    FileOf("_full.csv") \in DOMAIN artifacts =>
        LET df == export_to_dataframe(result)
            n == Len(result.extractions)
        IN  /\ artifacts[FileOf("_full.csv")] = to_csv(df)
            /\ Len(df.rows) = n
            /\ Len(artifacts[FileOf("_full.csv")].lines) = n
            /\ \A r \in 1..n :
                  LET e == result.extractions[r]
                  IN  /\ At(df, r, <<"extraction_class">>) = Value(e.extraction_class)
                      /\ At(df, r, <<"extraction_text">>) = Value(e.extraction_text.s)
                      /\ \A k \in DOMAIN e.attributes :
                            /\ HasColumn(df, <<"attr_", k>>)
                            /\ At(df, r, <<"attr_", k>>) = Value(e.attributes[k])
                      /\ \A c \in 1..Len(df.columns) :
                            (Len(df.columns[c]) = 2 /\ ~df.rows[r][c].nan) =>
                                df.columns[c][2] \in DOMAIN e.attributes

\* C13 witness: the full table was written for two extractions with different
\* attribute keys, one of them with no attributes at all
C13_Witness ==
    /\ FileOf("_full.csv") \in DOMAIN artifacts
    /\ result.extractions = <<BS_bare, RF_china>>
    /\ Len(artifacts[FileOf("_full.csv")].lines) = 2
    /\ Len(artifacts[FileOf("_full.csv")].header) = 6

-----------------------------------------------------------------------------
(* Claims about the summary report *)

\* the lines of the written report that carry this tag
ReportLines(tag) ==
    SelectSeq(artifacts[FileOf("_summary.md")], LAMBDA l : l[1] = tag)

\* the risk category of the extraction at position i, "unknown" when it has none
CategoryAt(i) ==
    IF "risk_category" \in DOMAIN result.extractions[i].attributes
    THEN result.extractions[i].attributes.risk_category ELSE "unknown"

RECURSIVE SumCounts(_, _)
SumCounts(lines, i) == IF i > Len(lines) THEN 0 ELSE lines[i][3] + SumCounts(lines, i + 1)

\* C14: in the report's risk-category breakdown every category present among
\* the risk_factor extractions ("unknown" for a missing risk_category) appears
\* exactly once, with its number of extractions, the categories are in
\* non-increasing order of count, and the counts sum to the number of
\* risk_factor extractions
C14_CategoryBreakdown ==
    FileOf("_summary.md") \in DOMAIN artifacts =>
        LET lines == ReportLines("category")
            risks == ClassIndexes("risk_factor")
        IN  /\ \A i \in risks :
                  Cardinality({k \in 1..Len(lines) : lines[k][2] = CategoryAt(i)}) = 1
            /\ \A k \in 1..Len(lines) :
                  lines[k][3] = Cardinality({i \in risks : CategoryAt(i) = lines[k][2]})
            /\ \A k \in 1..Len(lines) : lines[k][3] >= 1
            /\ \A k \in 1..(Len(lines) - 1) : lines[k][3] >= lines[k + 1][3]
            /\ SumCounts(lines, 1) = Cardinality(risks)

\* C14 witness: the report was written for risk factors whose most frequent
\* category is not the first to appear, one of them without a category
C14_Witness ==
    /\ FileOf("_summary.md") \in DOMAIN artifacts
    /\ result.extractions = <<RF_exact, RF_long, RF_long>>
    /\ ReportLines("category") =
          << <<"category", "regulatory", 2>>, <<"category", "unknown", 1>> >>

\* dict.get(key, default) on the attributes of the extraction at position i
AttrAt(i, key, default) ==
    IF key \in DOMAIN result.extractions[i].attributes
    THEN result.extractions[i].attributes[key] ELSE default

\* C15: the report lists the first min(5, n) company_info lines, the first
\* min(10, n) financial_metric rows, the first min(5, n) business_segment
\* entries and the first min(3, n) risk excerpts, in list order; an excerpt of
\* a text of at most 150 characters is the text without an ellipsis, that of a
\* longer text its first 150 characters followed by the ellipsis
C15_ReportIsBounded ==
    FileOf("_summary.md") \in DOMAIN artifacts =>
        LET infos == ClassIndexes("company_info")
            mets == ClassIndexes("financial_metric")
            segs == ClassIndexes("business_segment")
            risks == ClassIndexes("risk_factor")
        IN  /\ Len(ReportLines("info")) = Min(5, Cardinality(infos))
            /\ Len(ReportLines("metric")) = Min(10, Cardinality(mets))
            /\ Len(ReportLines("segment")) = Min(5, Cardinality(segs))
            /\ Len(ReportLines("risk")) = Min(3, Cardinality(risks))
            /\ \A k \in 1..Len(ReportLines("info")) :
                  ReportLines("info")[k] =
                      <<"info", AttrAt(Kth(infos, k), "info_type", "unknown"),
                        result.extractions[Kth(infos, k)].extraction_text>>
            /\ \A k \in 1..Len(ReportLines("metric")) :
                  ReportLines("metric")[k] =
                      <<"metric", AttrAt(Kth(mets, k), "metric_name", "unknown"),
                        AttrAt(Kth(mets, k), "value", ""), AttrAt(Kth(mets, k), "unit", ""),
                        AttrAt(Kth(mets, k), "time_period", "")>>
            /\ \A k \in 1..Len(ReportLines("segment")) :
                  ReportLines("segment")[k] =
                      <<"segment", result.extractions[Kth(segs, k)].extraction_text,
                        AttrAt(Kth(segs, k), "segment_type", "unknown")>>
            /\ \A k \in 1..Len(ReportLines("risk")) :
                  LET text == result.extractions[Kth(risks, k)].extraction_text
                      shown == ReportLines("risk")[k][3]
                  IN  /\ ReportLines("risk")[k][2] = CategoryAt(Kth(risks, k))
                      /\ shown.body.s = text.s
                      /\ shown.body.len = IF text.len <= 150 THEN text.len ELSE 150
                      /\ shown.ellipsis <=> text.len > 150

\* C15 witness: the report was written for eleven extractions of each of the
\* four classes, the second risk text 150 and the third 151 characters long
C15_Witness ==
    /\ FileOf("_summary.md") \in DOMAIN artifacts
    /\ result.extractions = Mixed(11)
    /\ Len(ReportLines("info")) = 5
    /\ Len(ReportLines("metric")) = 10
    /\ Len(ReportLines("segment")) = 5
    /\ Len(ReportLines("risk")) = 3
    /\ ~ReportLines("risk")[2][3].ellipsis
    /\ ReportLines("risk")[3][3].ellipsis

-----------------------------------------------------------------------------
(* Claims about the exporters together *)

ExportSuffixes == {"_metrics.csv", "_risks.json", "_segments.csv", "_summary.md", "_full.csv"}

\* C17: no export operation changes the document (extraction list, attributes,
\* text), and a file an operation creates or changes holds what its export
\* makes of that one document, whatever exports ran before and in whatever order
C17_DocumentUnchanged ==
    [][/\ result' = result
       /\ \A x \in ExportSuffixes :
             (/\ FileOf(x) \in DOMAIN artifacts'
              /\ FileOf(x) \in DOMAIN artifacts => artifacts'[FileOf(x)] # artifacts[FileOf(x)])
                 => artifacts'[FileOf(x)] =
                        Artifact(x, result, ExportArgs.ticker, ExportArgs.filing_type)]_vars

\* C17 witness: the five files were written for a document whose extractions
\* carry attributes, the last of them just created
C17_Witness ==
    /\ \A x \in ExportSuffixes : FileOf(x) \in DOMAIN artifacts
    /\ trace = <<"create">>
    /\ result.extractions = <<FM_segment, RF_china>>

\* the headings of the report's sections
ReportHeadings ==
    {"## Company Information", "## Key Financial Metrics", "## Business Segments",
     "## Risk Factor Categories", "## Sample Risk Factors"}

\* C18: for every well-formed document, the empty extraction list, a missing
\* class and missing attribute keys included, the analysis step and the export
\* operations do not raise, and each export writes its output: a table without
\* rows, an empty list or an empty report section where nothing matches
C18_DegenerateButValid ==
    /\ ret.kind # "raise"
    /\ pc = "export"
    /\ ~analyze_extractions(result).raised
    /\ FileOf("_metrics.csv") \in DOMAIN artifacts =>
          Len(artifacts[FileOf("_metrics.csv")].lines) =
              Cardinality(ClassIndexes("financial_metric"))
    /\ FileOf("_risks.json") \in DOMAIN artifacts =>
          Len(artifacts[FileOf("_risks.json")]) = Cardinality(ClassIndexes("risk_factor"))
    /\ FileOf("_segments.csv") \in DOMAIN artifacts =>
          Len(artifacts[FileOf("_segments.csv")].lines) =
              Cardinality(ClassIndexes("business_segment")) + Cardinality(SegmentMetricIndexes)
    /\ FileOf("_full.csv") \in DOMAIN artifacts =>
          Len(artifacts[FileOf("_full.csv")].lines) = Len(result.extractions)
    /\ FileOf("_summary.md") \in DOMAIN artifacts =>
          \A h \in ReportHeadings :
              \E k \in 1..Len(artifacts[FileOf("_summary.md")]) :
                  artifacts[FileOf("_summary.md")][k] = <<h>>

\* C18 witness: the analysis ran and the five files were written for a document
\* with an empty extraction list
C18_Witness ==
    /\ result.extractions = <<>>
    /\ trace = <<"analyze">>
    /\ ret.kind # "raise"
    /\ \A x \in ExportSuffixes : FileOf(x) \in DOMAIN artifacts
    /\ artifacts[FileOf("_metrics.csv")].lines = <<>>
    /\ artifacts[FileOf("_risks.json")] = <<>>
    /\ ReportLines("category") = <<>>

-----------------------------------------------------------------------------
(* Claims about the order of main() and about the sections limit *)

\* the positions of an event in the side effects of the running call
Positions(events) == {i \in 1..Len(trace) : trace[i] \in events}

SevenArtifacts ==
    {".jsonl", "_visualization.html", "_metrics.csv", "_risks.json", "_segments.csv",
     "_summary.md", "_full.csv"}

\* C19: main() runs fetch, then invoke, then export: the extraction call comes
\* after the filing text was obtained and after the last request and cache
\* access, no analysis or export comes before the extraction call has returned,
\* and at the completion message all seven artifacts have been written in this
\* run, each holding what is made of the document that extraction call returned
C19_FetchInvokeExport ==
    (caller = "main" /\ pc \in {"search", "detail", "doc", "extract", "done"}) =>
        /\ \A i \in Positions({"extract"}) :
              /\ \E j \in Positions({"cache_read", "cache_write"}) : j < i
              /\ \A j \in Positions({"GET_search", "GET_detail", "GET_doc", "sleep",
                                      "cache_read", "cache_write", "cache_write_failed",
                                      "mkdir_out", "mkdir_cache"}) : j < i
        /\ \A i \in Positions(SevenArtifacts \cup {"analyze", "complete"}) :
              \E j \in Positions({"extract"}) : j < i
        /\ pc \in {"search", "detail", "doc"} => Positions({"extract"}) = {}
        /\ pc = "extract" => Positions(SevenArtifacts \cup {"analyze", "extract"}) = {}
        /\ \A c \in Positions({"complete"}) :
              \A x \in SevenArtifacts :
                  /\ \E i \in Positions({x}) : i < c
                  /\ ArtifactName(args.ticker, args.filing_type, x) \in DOMAIN artifacts
                  /\ artifacts[ArtifactName(args.ticker, args.filing_type, x)] =
                        Artifact(x, result, args.ticker, args.filing_type)

\* C19 witness: a run of main() that fetched the filing over the network reached
\* its completion message with a document that has extractions
C19_Witness ==
    /\ caller = "main"
    /\ pc = "done"
    /\ ~args.skip_fetch
    /\ ret = Returned(EmptyText)
    /\ result.extractions = <<FM_revenue, RF_china>>
    /\ Positions({"GET_doc"}) # {}
    /\ trace[Len(trace)] = "complete"

\* C20: a call of get_filing_text or get_filing with a non-empty sections list
\* returns the cleaned full text cut to 50,000 characters, so never more than
\* 50,000 characters, whatever fetches of the filing came before
C20_SectionsAreTruncated ==
    (/\ pc = "done"
     /\ caller \in {"get_filing", "get_filing_text"}
     /\ args.sections # <<>>
     /\ ret.kind = "return")
        => ret.text.len <= 50000

-----------------------------------------------------------------------------
(* Claims about the requests of one fetch *)

\* the order in which get_filing issues its requests
RequestOrder == <<"GET_search", "GET_detail", "GET_doc">>

\* what the fetch handed to its caller: main() keeps it in filing_text
FetchResult == IF caller = "main" THEN filing_text ELSE ret.text

\* the requests issued so far are the first ones of the fixed order, each once,
\* the one in flight being the last; the sleep happened once if the document
\* was requested, after the detail-page request and before the document
\* request, and not at all otherwise
RequestsInOrder ==
    LET reqs == Requests(trace)
    IN  /\ Len(reqs) <= 3
        /\ reqs = SubSeq(RequestOrder, 1, Len(reqs))
        /\ pc = "search" => reqs = <<"GET_search">>
        /\ pc = "detail" => reqs = <<"GET_search", "GET_detail">>
        /\ pc = "doc" => reqs = RequestOrder
        /\ Cardinality(Positions({"sleep"})) = Cardinality(Positions({"GET_doc"}))
        /\ \A s \in Positions({"sleep"}) :
              /\ \E d \in Positions({"GET_detail"}) : d < s
              /\ \A g \in Positions({"GET_doc"}) : s < g

\* the step in which the request in flight fails: requests.get or
\* raise_for_status raises
RequestFails ==
    \/ SearchResponse(ErrorResponse)
    \/ DetailResponse(ErrorResponse)
    \/ \E w \in WriteOutcomes : DocResponse("error", w)

\* C21: nothing in the fetch path is retried: a call of get_filing issues at
\* most three HTTP requests, each at most once, in the order filing-index
\* search, filing detail page, primary document, and sleeps once between the
\* detail-page request and the document request; the step in which a request
\* fails ends the fetch with the empty text and issues no further request
C21_NoRetry ==
    [][/\ IsGetFiling' => RequestsInOrder'
       /\ (IsGetFiling /\ RequestFails) =>
             /\ pc' = "done"
             /\ FetchResult' = EmptyText
             /\ ret'.kind \in {"return", "exit"}
             /\ Requests(trace') = Requests(trace)
             /\ Positions({"sleep"})' = Positions({"sleep"})]_vars

\* C21 witness: a call of get_filing issued all three requests, slept between
\* the last two, and ended with the empty text when the document request
\* was not answered with a text
C21_Witness ==
    /\ caller = "get_filing"
    /\ pc = "done"
    /\ trace = <<"GET_search", "GET_detail", "sleep", "GET_doc">>
    /\ ret = Returned(EmptyText)

====
